---- MODULE Spec2Model ----
(***************************************************************************)
(* Model of the VS Code installation utilities of PyUtils:                 *)
(*   - the direct-download path, class VSCManager (src/manager.py);        *)
(*   - the repository-based path, main() of                                *)
(*     src/Python_apps/vscd_manager/main.py with utils.py, and its copy    *)
(*     src/Python_apps/vscd_manager/code_install.py.                       *)
(* Every external call (a package-manager command, an HTTP request, a file *)
(* operation, a sleep) is one step of the instance that makes it; what the *)
(* environment answers is a nondeterministic choice.                       *)
(***************************************************************************)
EXTENDS Integers, Sequences, FiniteSets

VARIABLES
    pc,             \* per instance: the step the instance is about to take
    variant,        \* per instance: which program it runs
    temp_deb_path,  \* per instance: VSCManager.temp_deb_path
    fs,             \* the filesystem shared by all instances: path -> file
    attempt_number, \* per instance: tenacity's attempt counter of download_vscode
    outcomes,       \* per instance: how each finished download attempt ended
    starts,         \* per instance: the time each download attempt started
    now,            \* per instance: seconds elapsed since the instance started
    exc,            \* per instance: the exception propagating, or "none"
    log,            \* per instance: the stages started, in order
    completed,      \* per instance: the stages that returned normally
    cmds,           \* per instance: the commands handed to run_command, in order
    installed_from, \* per instance: the file dpkg -i was handed, as it then was
    warnings,       \* per instance: number of warnings cleanup logged
    exit_code,      \* per instance: the process exit status, or -1 while running
    rtt             \* the durations (seconds) an HTTP request may take in this run

vars == <<pc, variant, temp_deb_path, fs, attempt_number, outcomes, starts, now,
          exc, log, completed, cmds, installed_from, warnings, exit_code, rtt>>

\* ------------------------------------------------------------------ bounds

\* The instances that may run side by side.
Procs == {1, 2}

\* Longest time a single HTTP request is observed to take before it answers
\* or fails (seconds, abstracted).
MaxLatency == 1

\* ------------------------------------------------------- program constants

TempDir == "/tmp"

TEMP_DEB_NAME == "vscode_latest.deb"

\* stop=stop_after_attempt(3)
STOP_AFTER_ATTEMPT == 3

\* wait=wait_fixed(5)
WAIT_FIXED == 5

\* reraise=True
RERAISE == TRUE

\* ------------------------------------------------------------- filesystem

Absent == [exists |-> FALSE, writer |-> 0, complete |-> FALSE]

\* A leftover of an earlier run: written by nobody now running.
Leftover == [exists |-> TRUE, writer |-> 0, complete |-> TRUE]

\* What installed_from holds before dpkg -i ran.
NotInstalled == [exists |-> FALSE, writer |-> -1, complete |-> FALSE]

\* Variant: a temp file name that carries the instance.
PerInstanceDebPath(p) == <<TempDir, IF p = 1 THEN "vscode_1.deb" ELSE "vscode_2.deb">>

\* VSCManager.__init__: Path(tempfile.gettempdir()) / TEMP_DEB_NAME
TempDebPath(p) == <<TempDir, TEMP_DEB_NAME>>

temp_gpg_armor == <<TempDir, "microsoft.asc">>

temp_gpg_dearmor == <<TempDir, "microsoft.gpg">>

destination_keyring == <<"/usr/share/keyrings", "microsoft.gpg">>

repo_file == <<"/etc/apt/sources.list.d", "vscode.list">>

Paths == {TempDebPath(p) : p \in Procs}
            \cup {temp_gpg_armor, temp_gpg_dearmor, destination_keyring, repo_file}

\* ------------------------------------------------------------- exceptions

\* The subclasses of requests.exceptions.RequestException the request can raise:
\* requests.get raises ConnectionError or Timeout, raise_for_status HTTPError.
RequestExceptions == {"ConnectionError", "Timeout", "HTTPError"}

\* Variant: a retry on every exception, as retry() without a predicate does.
RetryOnAnyException(e) == e # "none"

\* retry=retry_if_exception_type(RequestException)

RetryPredicate(e) == e \in RequestExceptions

\* Variants: the stop condition off by one, either way.
StopAfterFour(n) == n >= STOP_AFTER_ATTEMPT + 1

StopAfterTwo(n) == n >= STOP_AFTER_ATTEMPT - 1

\* stop=stop_after_attempt(3): whether to stop after attempt n failed
ShouldStop(n) == n >= STOP_AFTER_ATTEMPT

\* wait=wait_fixed(5): the seconds slept before the attempt after attempt n
WaitSeconds(n) == WAIT_FIXED

\* run_command(cmd): runs the command and raises subprocess.CalledProcessError
\* when it exits non-zero.
RunCommandRaises(status) == status # 0

ExitStatuses == {0, 1}

\* ----------------------------------------------------------------- stages

InstallStages == <<"deps", "fetch", "install", "verify">>

AllStages == <<"privilege", "deps", "fetch", "install", "verify", "cleanup">>

\* ------------------------------------------------------------------- Init

InitOf(active, variants, latency) ==
    /\ variant \in {f \in [Procs -> variants \cup {"none"}] :
                       \A p \in Procs : f[p] = "none" <=> p \notin active}
    /\ rtt = 0..latency
    /\ pc = [p \in Procs |-> IF p \in active THEN "start" ELSE "off"]
    /\ temp_deb_path = [p \in Procs |-> TempDebPath(p)]
    /\ \E f \in {Absent, Leftover} :
          fs = [q \in Paths |-> IF q \in {TempDebPath(p) : p \in Procs} THEN f ELSE Absent]
    /\ attempt_number = [p \in Procs |-> 0]
    /\ outcomes = [p \in Procs |-> <<>>]
    /\ starts = [p \in Procs |-> <<>>]
    /\ now = [p \in Procs |-> 0]
    /\ exc = [p \in Procs |-> "none"]
    /\ log = [p \in Procs |-> <<>>]
    /\ completed = [p \in Procs |-> {}]
    /\ cmds = [p \in Procs |-> <<>>]
    /\ installed_from = [p \in Procs |-> NotInstalled]
    /\ warnings = [p \in Procs |-> 0]
    /\ exit_code = [p \in Procs |-> -1]

\* ------------------------------------------------- helpers of the actions

Goto(p, l) == pc' = [pc EXCEPT ![p] = l]

Raise(p, e) == exc' = [exc EXCEPT ![p] = e]

StartStage(p, s) == log' = [log EXCEPT ![p] = Append(@, s)]

Complete(p, s) == completed' = [completed EXCEPT ![p] = @ \cup {s}]

Ran(p, c, status) == cmds' = [cmds EXCEPT ![p] = Append(@, <<c, status>>)]

\* The file at temp_deb_path of instance p.
DebFile(p) == fs[temp_deb_path[p]]

\* --------------------------------------------- the caller of VSCManager
\* The command-line entry point that drives VSCManager: the privilege check,
\* then the requested action, then cleanup whether the action returned or
\* raised, then the process exit.
CallerNext(step) ==
    CASE step = "check_root" -> "deps_update"
      [] step = "handle_install" -> "cleanup"
      [] step = "cleanup" -> "exit"

\* The exit status of the Python process: 0 when nothing propagates to the top,
\* 1 for sys.exit(1) and for an uncaught exception.
ExitStatusOf(e) == IF e = "none" THEN 0 ELSE 1

\* An exception (SystemExit included) leaving handle_install unwinds to the caller.
HardExit(p, e) == Raise(p, e) /\ Goto(p, "exit")

Unwind(p, e) == Raise(p, e) /\ Goto(p, CallerNext("handle_install"))

\* ------------------------------------------------------------ VSCManager

\* check_root
CheckRoot(p) ==
    /\ pc[p] = "start" /\ variant[p] = "direct"
    /\ StartStage(p, "privilege")
    /\ \E euid \in {0, 1000} :
          IF euid # 0
          THEN /\ HardExit(p, "SystemExit")
               /\ UNCHANGED completed
          ELSE /\ Complete(p, "privilege")
               /\ Goto(p, CallerNext("check_root"))
               /\ UNCHANGED exc
    /\ UNCHANGED <<variant, rtt, temp_deb_path, fs, attempt_number, outcomes, starts,
                   now, cmds, installed_from, warnings, exit_code>>

\* Variant: the failure is swallowed and handle_install goes on.
DepsFailedIgnored(p) == Goto(p, "dl_call") /\ UNCHANGED exc

\* install_dependencies: neither run_command is guarded, so CalledProcessError
\* leaves install_dependencies and handle_install.
DepsFailed(p) == Unwind(p, "CalledProcessError")

\* install_dependencies, run_command(["apt", "update"])
DepsUpdate(p) ==
    /\ pc[p] = "deps_update"
    /\ StartStage(p, "deps")
    /\ \E status \in ExitStatuses :
          /\ Ran(p, "apt update", status)
          /\ IF RunCommandRaises(status)
             THEN DepsFailed(p)
             ELSE Goto(p, "deps_install") /\ UNCHANGED exc
    /\ UNCHANGED <<variant, rtt, temp_deb_path, fs, attempt_number, outcomes, starts,
                   now, completed, installed_from, warnings, exit_code>>

\* install_dependencies, run_command(["apt", "install", "-y"] + dependencies);
\* handle_install then calls download_vscode.
DepsInstall(p) ==
    /\ pc[p] = "deps_install"
    /\ \E status \in ExitStatuses :
          /\ Ran(p, "apt install -y deps", status)
          /\ IF RunCommandRaises(status)
             THEN DepsFailed(p) /\ UNCHANGED completed
             ELSE Complete(p, "deps") /\ Goto(p, "dl_call") /\ UNCHANGED exc
    /\ UNCHANGED <<variant, rtt, temp_deb_path, fs, attempt_number, outcomes, starts,
                   now, log, installed_from, warnings, exit_code>>

\* handle_install calls the retrying download_vscode: tenacity starts attempt 1.
BeginDownload(p) ==
    /\ pc[p] = "dl_call"
    /\ StartStage(p, "fetch")
    /\ attempt_number' = [attempt_number EXCEPT ![p] = 1]
    /\ Goto(p, "dl_get")
    /\ UNCHANGED <<variant, rtt, temp_deb_path, fs, outcomes, starts, now, exc,
                   completed, cmds, installed_from, warnings, exit_code>>

\* What tenacity does with an attempt that raised e: retry after a wait when e is
\* of the retried type and the stop condition does not hold, otherwise let the
\* exception out (reraise=True: the last exception itself, not a RetryError).
AttemptFailed(p, e) ==
    /\ outcomes' = [outcomes EXCEPT ![p] = Append(@, e)]
    /\ IF RetryPredicate(e) /\ ~ShouldStop(attempt_number[p])
       THEN Goto(p, "dl_sleep") /\ UNCHANGED exc
       ELSE Unwind(p, IF RetryPredicate(e) /\ ~RERAISE THEN "RetryError" ELSE e)

\* download_vscode: requests.get(..., stream=True, timeout=10); raise_for_status()
DlRequest(p) ==
    /\ pc[p] = "dl_get"
    /\ starts' = [starts EXCEPT ![p] = Append(@, now[p])]
    /\ \E d \in rtt : now' = [now EXCEPT ![p] = @ + d]
    /\ \E r \in {"ok"} \cup RequestExceptions :
          IF r = "ok"
          THEN Goto(p, "dl_open") /\ UNCHANGED <<outcomes, exc>>
          ELSE AttemptFailed(p, r)
    /\ UNCHANGED <<variant, rtt, temp_deb_path, fs, attempt_number, log, completed,
                   cmds, installed_from, warnings, exit_code>>

\* download_vscode: self.temp_deb_path.open("wb") creates or truncates the file
DlOpen(p) ==
    /\ pc[p] = "dl_open"
    /\ \E r \in {"ok", "OSError"} :
          IF r = "ok"
          THEN /\ fs' = [fs EXCEPT ![temp_deb_path[p]] =
                            [exists |-> TRUE, writer |-> p, complete |-> FALSE]]
               /\ Goto(p, "dl_copy")
               /\ UNCHANGED <<outcomes, exc>>
          ELSE AttemptFailed(p, r) /\ UNCHANGED fs
    /\ UNCHANGED <<variant, rtt, temp_deb_path, attempt_number, starts, now, log,
                   completed, cmds, installed_from, warnings, exit_code>>

\* download_vscode: shutil.copyfileobj(response.raw, file), then the return to
\* handle_install, which calls install_vscode. Reading response.raw raises
\* urllib3's own errors ("StreamError"), which are no RequestException; writing
\* raises OSError. The bytes reach the path only while it still names the file
\* this instance opened.
DlCopy(p) ==
    /\ pc[p] = "dl_copy"
    /\ \E r \in {"ok", "OSError", "StreamError"} :
          IF r = "ok"
          THEN /\ fs' = [fs EXCEPT ![temp_deb_path[p]] =
                            IF @.exists /\ @.writer = p
                            THEN [@ EXCEPT !.complete = TRUE] ELSE @]
               /\ outcomes' = [outcomes EXCEPT ![p] = Append(@, "ok")]
               /\ Complete(p, "fetch")
               /\ Goto(p, "install_dpkg")
               /\ UNCHANGED exc
          ELSE AttemptFailed(p, r) /\ UNCHANGED <<fs, completed>>
    /\ UNCHANGED <<variant, rtt, temp_deb_path, attempt_number, starts, now, log, cmds,
                   installed_from, warnings, exit_code>>

\* tenacity between two attempts: sleep(wait), then the next attempt
DlSleep(p) ==
    /\ pc[p] = "dl_sleep"
    /\ now' = [now EXCEPT ![p] = @ + WaitSeconds(attempt_number[p])]
    /\ attempt_number' = [attempt_number EXCEPT ![p] = @ + 1]
    /\ Goto(p, "dl_get")
    /\ UNCHANGED <<variant, rtt, temp_deb_path, fs, outcomes, starts, exc, log,
                   completed, cmds, installed_from, warnings, exit_code>>

\* Variant: no except clause, the failure of dpkg -i leaves install_vscode.
DpkgFailedPropagates(p) == Unwind(p, "CalledProcessError")

\* install_vscode: except subprocess.CalledProcessError: go on to the fallback
DpkgFailed(p) == Goto(p, "install_fix") /\ UNCHANGED exc

\* install_vscode: run_command(["dpkg", "-i", str(self.temp_deb_path)])
InstallDpkg(p) ==
    /\ pc[p] = "install_dpkg"
    /\ StartStage(p, "install")
    /\ installed_from' = [installed_from EXCEPT ![p] = DebFile(p)]
    /\ \E status \in ExitStatuses :
          /\ Ran(p, "dpkg -i", status)
          /\ IF RunCommandRaises(status)
             THEN DpkgFailed(p) /\ UNCHANGED completed
             ELSE Complete(p, "install") /\ Goto(p, "verify") /\ UNCHANGED exc
    /\ UNCHANGED <<variant, rtt, temp_deb_path, fs, attempt_number, outcomes, starts,
                   now, warnings, exit_code>>

\* Variant: the failure of the fallback is swallowed too.
FixFailedIgnored(p) == Goto(p, "verify") /\ UNCHANGED exc

\* install_vscode: the fallback runs inside the except clause, unguarded
FixFailed(p) == Unwind(p, "CalledProcessError")

\* install_vscode, except branch: run_command(["apt", "install", "-f", "-y"]);
\* on its return install_vscode returns and handle_install calls verify_installation
InstallFix(p) ==
    /\ pc[p] = "install_fix"
    /\ \E status \in ExitStatuses :
          /\ Ran(p, "apt install -f -y", status)
          /\ IF RunCommandRaises(status)
             THEN FixFailed(p) /\ UNCHANGED completed
             ELSE Complete(p, "install") /\ Goto(p, "verify") /\ UNCHANGED exc
    /\ UNCHANGED <<variant, rtt, temp_deb_path, fs, attempt_number, outcomes, starts,
                   now, log, installed_from, warnings, exit_code>>

\* Variant: the process ends on the spot (os._exit), nothing unwinds.
VerifyFailedKillsProcess(p) == HardExit(p, "SystemExit")

\* verify_installation: except CalledProcessError: sys.exit(1), which raises
\* SystemExit through handle_install
VerifyFailed(p) == Unwind(p, "SystemExit")

\* verify_installation: run_command(["code", "--version"], check=True,
\* capture_output=True); handle_install returns after it.
Verify(p) ==
    /\ pc[p] = "verify"
    /\ StartStage(p, "verify")
    /\ \E status \in ExitStatuses :
          /\ Ran(p, "code --version", status)
          /\ IF RunCommandRaises(status)
             THEN VerifyFailed(p) /\ UNCHANGED completed
             ELSE /\ Complete(p, "verify")
                  /\ Goto(p, CallerNext("handle_install"))
                  /\ UNCHANGED exc
    /\ UNCHANGED <<variant, rtt, temp_deb_path, fs, attempt_number, outcomes, starts,
                   now, installed_from, warnings, exit_code>>

\* Variant: no except clause around unlink.
UnlinkFailedRaises(p) == Raise(p, "OSError") /\ UNCHANGED <<fs, warnings>>

\* cleanup: except Exception as e: logger.warning(...)
UnlinkFailed(p) ==
    /\ warnings' = [warnings EXCEPT ![p] = @ + 1]
    /\ UNCHANGED <<fs, exc>>

\* cleanup: if the file exists, unlink it
Cleanup(p) ==
    /\ pc[p] = "cleanup"
    /\ StartStage(p, "cleanup")
    /\ IF DebFile(p).exists
       THEN \E r \in {"ok", "OSError"} :
               IF r = "ok"
               THEN /\ fs' = [fs EXCEPT ![temp_deb_path[p]] = Absent]
                    /\ UNCHANGED <<warnings, exc>>
               ELSE UnlinkFailed(p)
       ELSE UNCHANGED <<fs, warnings, exc>>
    /\ Complete(p, "cleanup")
    /\ Goto(p, CallerNext("cleanup"))
    /\ UNCHANGED <<variant, rtt, temp_deb_path, attempt_number, outcomes, starts, now,
                   cmds, installed_from, exit_code>>

\* The process ends: status 0, or 1 when sys.exit(1) or an exception reached the top.
Exit(p) ==
    /\ pc[p] = "exit"
    /\ exit_code' = [exit_code EXCEPT ![p] = ExitStatusOf(exc[p])]
    /\ Goto(p, "done")
    /\ UNCHANGED <<variant, rtt, temp_deb_path, fs, attempt_number, outcomes, starts,
                   now, exc, log, completed, cmds, installed_from, warnings>>

DirectNext(p) ==
    \/ CheckRoot(p)
    \/ DepsUpdate(p)
    \/ DepsInstall(p)
    \/ BeginDownload(p)
    \/ DlRequest(p)
    \/ DlOpen(p)
    \/ DlCopy(p)
    \/ DlSleep(p)
    \/ InstallDpkg(p)
    \/ InstallFix(p)
    \/ Verify(p)
    \/ Cleanup(p)
    \/ Exit(p)

\* --------------------------------------------- the repository-based path
\* main() of main.py (variant "repo") and of code_install.py (variant "repo_ci"),
\* with the functions each file binds: utils.py for main.py, its own for
\* code_install.py.

IsRepo(p) == variant[p] \in {"repo", "repo_ci"}

Written(p) == [exists |-> TRUE, writer |-> p, complete |-> TRUE]

RepoUnchanged == UNCHANGED <<variant, rtt, temp_deb_path, attempt_number, outcomes,
                             starts, now, cmds, installed_from, warnings, exit_code>>

\* check_root()
RCheckRoot(p) ==
    /\ pc[p] = "start" /\ IsRepo(p)
    /\ StartStage(p, "privilege")
    /\ \E euid \in {0, 1000} :
          IF euid # 0
          THEN HardExit(p, "SystemExit") /\ UNCHANGED completed
          ELSE Complete(p, "privilege") /\ Goto(p, "r_update") /\ UNCHANGED exc
    /\ UNCHANGED fs
    /\ RepoUnchanged

\* update_and_upgrade(cache): no handler, an apt error reaches the top
RUpdateUpgrade(p) ==
    /\ pc[p] = "r_update"
    /\ StartStage(p, "deps")
    /\ \E r \in {"ok", "Exception"} :
          IF r = "ok"
          THEN Goto(p, "r_install_packages") /\ UNCHANGED exc
          ELSE HardExit(p, r)
    /\ UNCHANGED <<fs, completed>>
    /\ RepoUnchanged

\* install_packages(cache, ['wget', 'gpg']). utils.py: commit, sys.exit(1) when it
\* raises. code_install.py: the function reads pkg_to_install, which it never
\* binds, and raises NameError.
RInstallPackages(p) ==
    /\ pc[p] = "r_install_packages"
    /\ IF variant[p] = "repo_ci"
       THEN HardExit(p, "NameError") /\ UNCHANGED completed
       ELSE \E r \in {"ok", "none_found", "commit_failed"} :
               IF r = "commit_failed"
               THEN HardExit(p, "SystemExit") /\ UNCHANGED completed
               ELSE /\ Complete(p, "deps")
                    /\ Goto(p, "r_download_key")
                    /\ UNCHANGED exc
    /\ UNCHANGED <<fs, log>>
    /\ RepoUnchanged

\* download_gpg_key(url, '/tmp/microsoft.asc'): one request, no retry; a
\* RequestException becomes sys.exit(1), an OSError of open/write is not caught.
RDownloadKey(p) ==
    /\ pc[p] = "r_download_key"
    /\ StartStage(p, "fetch")
    /\ \E r \in {"ok", "OSError"} \cup RequestExceptions :
          IF r = "ok"
          THEN /\ fs' = [fs EXCEPT ![temp_gpg_armor] = Written(p)]
               /\ Goto(p, "r_dearmor")
               /\ UNCHANGED exc
          ELSE /\ HardExit(p, IF r \in RequestExceptions THEN "SystemExit" ELSE r)
               /\ UNCHANGED fs
    /\ UNCHANGED completed
    /\ RepoUnchanged

\* dearmor_gpg_key(gpg, armor, dearmor): any failure becomes sys.exit(1)
RDearmor(p) ==
    /\ pc[p] = "r_dearmor"
    /\ \E r \in {"ok", "failed"} :
          IF r = "ok"
          THEN /\ fs' = [fs EXCEPT ![temp_gpg_dearmor] = Written(p)]
               /\ Goto(p, "r_install_key")
               /\ UNCHANGED exc
          ELSE HardExit(p, "SystemExit") /\ UNCHANGED fs
    /\ UNCHANGED <<log, completed>>
    /\ RepoUnchanged

\* install_gpg_key(dearmor, keyring): shutil.move, chmod; failure is sys.exit(1)
RInstallKey(p) ==
    /\ pc[p] = "r_install_key"
    /\ \E r \in {"ok", "failed"} :
          IF r = "ok"
          THEN /\ fs' = [fs EXCEPT ![temp_gpg_dearmor] = Absent,
                                   ![destination_keyring] = Written(p)]
               /\ Goto(p, "r_remove_armor")
               /\ UNCHANGED exc
          ELSE HardExit(p, "SystemExit") /\ UNCHANGED fs
    /\ UNCHANGED <<log, completed>>
    /\ RepoUnchanged

\* main: if os.path.exists(temp_gpg_armor): os.remove(temp_gpg_armor), unguarded
RRemoveArmor(p) ==
    /\ pc[p] = "r_remove_armor"
    /\ IF fs[temp_gpg_armor].exists
       THEN \E r \in {"ok", "OSError"} :
               IF r = "ok"
               THEN /\ fs' = [fs EXCEPT ![temp_gpg_armor] = Absent]
                    /\ Goto(p, "r_add_repo")
                    /\ UNCHANGED exc
               ELSE HardExit(p, r) /\ UNCHANGED fs
       ELSE Goto(p, "r_add_repo") /\ UNCHANGED <<fs, exc>>
    /\ UNCHANGED <<log, completed>>
    /\ RepoUnchanged

\* add_vscode_repository(repo_entry, repo_file): failure is sys.exit(1)
RAddRepo(p) ==
    /\ pc[p] = "r_add_repo"
    /\ \E r \in {"ok", "failed"} :
          IF r = "ok"
          THEN /\ fs' = [fs EXCEPT ![repo_file] = Written(p)]
               /\ Goto(p, "r_cache_update")
               /\ UNCHANGED exc
          ELSE HardExit(p, "SystemExit") /\ UNCHANGED fs
    /\ UNCHANGED <<log, completed>>
    /\ RepoUnchanged

\* Variant: main goes from the cache update straight to autoremove_packages.
RCacheUpdateSkipsInstall(p) ==
    /\ pc[p] = "r_cache_update"
    /\ \E r \in {"ok", "Exception"} :
          IF r = "ok"
          THEN Complete(p, "fetch") /\ Goto(p, "r_autoremove") /\ UNCHANGED exc
          ELSE HardExit(p, r) /\ UNCHANGED completed
    /\ UNCHANGED <<fs, log>>
    /\ RepoUnchanged

\* main: cache.update(); cache.open(None), unguarded; then install_vscode(cache)
RCacheUpdate(p) ==
    /\ pc[p] = "r_cache_update"
    /\ \E r \in {"ok", "Exception"} :
          IF r = "ok"
          THEN Complete(p, "fetch") /\ Goto(p, "r_install_vscode") /\ UNCHANGED exc
          ELSE HardExit(p, r) /\ UNCHANGED completed
    /\ UNCHANGED <<fs, log>>
    /\ RepoUnchanged

\* install_vscode(cache): 'code' missing from the cache or a failed commit is
\* sys.exit(1); main goes on to autoremove_packages.
RInstallVscode(p) ==
    /\ pc[p] = "r_install_vscode"
    /\ StartStage(p, "install")
    /\ \E r \in {"ok", "not_in_cache", "commit_failed"} :
          IF r = "ok"
          THEN Complete(p, "install") /\ Goto(p, "r_autoremove") /\ UNCHANGED exc
          ELSE HardExit(p, "SystemExit") /\ UNCHANGED completed
    /\ UNCHANGED fs
    /\ RepoUnchanged

\* autoremove_packages(cache): failure is sys.exit(1)
RAutoremove(p) ==
    /\ pc[p] = "r_autoremove"
    /\ StartStage(p, "cleanup")
    /\ \E r \in {"ok", "failed"} :
          IF r = "ok"
          THEN Goto(p, "r_remove_dearmor") /\ UNCHANGED exc
          ELSE HardExit(p, "SystemExit")
    /\ UNCHANGED <<fs, completed>>
    /\ RepoUnchanged

\* main: if os.path.exists(temp_gpg_dearmor): try os.remove except OSError: print;
\* then the success message and the end of main.
RRemoveDearmor(p) ==
    /\ pc[p] = "r_remove_dearmor"
    /\ IF fs[temp_gpg_dearmor].exists
       THEN \E r \in {"ok", "OSError"} :
               fs' = IF r = "ok" THEN [fs EXCEPT ![temp_gpg_dearmor] = Absent] ELSE fs
       ELSE UNCHANGED fs
    /\ Complete(p, "cleanup")
    /\ Goto(p, "exit")
    /\ UNCHANGED <<log, exc>>
    /\ RepoUnchanged

RepoNext(p) ==
    \/ RCheckRoot(p)
    \/ RUpdateUpgrade(p)
    \/ RInstallPackages(p)
    \/ RDownloadKey(p)
    \/ RDearmor(p)
    \/ RInstallKey(p)
    \/ RRemoveArmor(p)
    \/ RAddRepo(p)
    \/ RCacheUpdate(p)
    \/ RInstallVscode(p)
    \/ RAutoremove(p)
    \/ RRemoveDearmor(p)

\* ---------------------------------------------------------- specifications

\* One run of either path.
Init == InitOf({1}, {"direct", "repo", "repo_ci"}, MaxLatency)

Next == \E p \in Procs : DirectNext(p) \/ RepoNext(p)

Spec == Init /\ [][Next]_vars

\* Two runs of the direct-download path side by side, steps interleaved.
InitConc == InitOf(Procs, {"direct"}, 0)

NextConc == \E p \in Procs : DirectNext(p)

SpecConc == InitConc /\ [][NextConc]_vars

\* ------------------------------------------------------------- properties

Range(s) == {s[i] : i \in 1..Len(s)}

IsPrefix(s, t) == Len(s) <= Len(t) /\ \A i \in 1..Len(s) : s[i] = t[i]

Direct(p) == variant[p] = "direct"

\* download_vscode has been called and has neither returned nor raised.
Downloading(p) == pc[p] \in {"dl_get", "dl_open", "dl_copy", "dl_sleep"}

\* The run is past handle_install: in the caller's cleanup, or ending.
Unwound(p) == pc[p] \in {"cleanup", "exit", "done"}

AllTransient(o) == \A i \in 1..Len(o) : o[i] \in RequestExceptions

Last(o) == o[Len(o)]

Front(o) == SubSeq(o, 1, Len(o) - 1)

\* C1: after at most 2 transient transport failures (RequestException)
\* download_vscode has not given up, and when the next attempt succeeds it
\* returns normally, having made one attempt per outcome and at most 3 in all.
C1_SucceedsWithinThreeAttempts ==
    \A p \in Procs :
        Direct(p) /\ "fetch" \in Range(log[p]) =>
            LET o == outcomes[p] IN
            /\ Len(o) <= 2 /\ AllTransient(o) => Downloading(p)
            /\ o # <<>> /\ Last(o) = "ok" /\ Len(o) <= 3 /\ AllTransient(Front(o)) =>
                  /\ "fetch" \in completed[p]
                  /\ ~Downloading(p)
                  /\ Len(starts[p]) = Len(o)
                  /\ Len(starts[p]) <= 3
                  /\ pc[p] = "install_dpkg" => exc[p] = "none"

\* C1 witness: two transient failures, then the third attempt succeeded and
\* download_vscode returned to handle_install.
C1_Witness ==
    \E p \in Procs :
        /\ Len(outcomes[p]) = 3 /\ AllTransient(Front(outcomes[p]))
        /\ Last(outcomes[p]) = "ok"
        /\ pc[p] = "install_dpkg"

C3_FilesystemErrorAfterOneAttempt ==
    \A p \in Procs :
        Direct(p) /\ "OSError" \in Range(outcomes[p]) => Len(starts[p]) = 1

\* C3 amended: only an attempt that raised a RequestException is followed by
\* another attempt; the attempt that raised a filesystem error is the last one
\* (the only one when the error hits the first attempt), and the error leaves
\* download_vscode.
C3_FilesystemErrorNotRetried ==
    \A p \in Procs :
        Direct(p) =>
            LET o == outcomes[p] IN
            /\ AllTransient(Front(o))
            /\ Len(starts[p]) > Len(o) => AllTransient(o)
            /\ o # <<>> /\ Last(o) = "OSError" =>
                  /\ Len(starts[p]) = Len(o)
                  /\ exc[p] = "OSError"
                  /\ Unwound(p)
                  /\ "fetch" \notin completed[p]
            /\ o = <<"OSError">> => Len(starts[p]) = 1

\* C3 witness: a transport failure was retried, and the filesystem error of the
\* second attempt ended the fetch.
C3_Witness ==
    \E p \in Procs :
        /\ Len(outcomes[p]) = 2 /\ outcomes[p][1] \in RequestExceptions
        /\ outcomes[p][2] = "OSError"
        /\ Len(starts[p]) = 2
        /\ pc[p] = "done"

\* The positions of cmds[p] at which command c was run.
Runs(p, c) == {i \in 1..Len(cmds[p]) : cmds[p][i][1] = c}

\* Command c was run and exited with a status that makes run_command raise.
RanAndFailed(p, c) == \E i \in Runs(p, c) : cmds[p][i][2] # 0

RanAndSucceeded(p, c) == \E i \in Runs(p, c) : cmds[p][i][2] = 0

\* C4: a failed dpkg -i is followed by the fallback apt install -f -y, which is
\* run at most once and only right after the failed dpkg -i; when the fallback
\* succeeds install_vscode returns without raising and handle_install goes on to
\* verify_installation.
C4_FallbackRecovers ==
    \A p \in Procs :
        Direct(p) =>
            /\ Cardinality(Runs(p, "apt install -f -y")) <= 1
            /\ \A i \in Runs(p, "apt install -f -y") :
                  i > 1 /\ cmds[p][i - 1] = <<"dpkg -i", 1>>
            /\ RanAndFailed(p, "dpkg -i") =>
                  pc[p] = "install_fix" \/ Runs(p, "apt install -f -y") # {}
            /\ RanAndFailed(p, "dpkg -i") /\ RanAndSucceeded(p, "apt install -f -y") =>
                  /\ "install" \in completed[p]
                  /\ Cardinality(Runs(p, "apt install -f -y")) = 1
                  /\ \/ pc[p] = "verify" /\ exc[p] = "none"
                     \/ /\ "verify" \in Range(log[p])
                        /\ Runs(p, "code --version") # {}

\* C4 witness: dpkg -i failed, the fallback succeeded, verification has started.
C4_Witness ==
    \E p \in Procs :
        /\ RanAndFailed(p, "dpkg -i")
        /\ RanAndSucceeded(p, "apt install -f -y")
        /\ "verify" \in Range(log[p])

\* C5: when dpkg -i and the fallback both fail, CalledProcessError leaves
\* install_vscode and handle_install, the install stage is not completed,
\* verify_installation is never started, and the process exits non-zero.
C5_DoubleFailureIsFatal ==
    \A p \in Procs :
        Direct(p) /\ RanAndFailed(p, "apt install -f -y") =>
            /\ RanAndFailed(p, "dpkg -i")
            /\ exc[p] = "CalledProcessError"
            /\ Unwound(p)
            /\ "install" \notin completed[p]
            /\ "verify" \notin Range(log[p])
            /\ Runs(p, "code --version") = {}
            /\ pc[p] = "done" => exit_code[p] # 0

\* C5 witness: a finished run in which both install commands failed.
C5_Witness ==
    \E p \in Procs :
        /\ RanAndFailed(p, "dpkg -i")
        /\ RanAndFailed(p, "apt install -f -y")
        /\ pc[p] = "done" /\ exit_code[p] = 1

\* C6: a run that entered handle_install does not end before cleanup was
\* attempted, whether handle_install returned (Verified) or raised (Failed,
\* the SystemExit of verify_installation included); so a file this run
\* downloaded is still there at the end only if cleanup tried and failed to
\* remove it.
C6_CleanupAlwaysAttempted ==
    \A p \in Procs :
        Direct(p) /\ pc[p] \in {"exit", "done"} =>
            /\ "deps" \in Range(log[p]) => "cleanup" \in Range(log[p])
            /\ DebFile(p).exists /\ DebFile(p).writer = p =>
                  "cleanup" \in Range(log[p]) /\ warnings[p] >= 1

\* C6 witness: verification failed with sys.exit(1) after the download, and the
\* run still removed the downloaded file before it ended.
C6_Witness ==
    \E p \in Procs :
        /\ pc[p] = "done" /\ exc[p] = "SystemExit"
        /\ RanAndFailed(p, "code --version")
        /\ "cleanup" \in completed[p]
        /\ ~DebFile(p).exists

\* C7: the cleanup step lets no exception out and leaves the propagating one as
\* it was; without a file it changes nothing, with a file it either removes it
\* or logs one warning; and the exit status is 0 exactly when handle_install
\* returned, whatever cleanup met.
C7_CleanupNeverRaises ==
    /\ [][\A p \in Procs :
            pc[p] = "cleanup" /\ pc'[p] # "cleanup" =>
                /\ pc'[p] = "exit"
                /\ exc'[p] = exc[p]
                /\ ~DebFile(p).exists => fs' = fs /\ warnings' = warnings
                /\ DebFile(p).exists =>
                      \/ ~DebFile(p)'.exists /\ warnings' = warnings
                      \/ fs' = fs /\ warnings'[p] = warnings[p] + 1]_vars
    /\ [](\A p \in Procs :
            Direct(p) /\ pc[p] = "done" =>
                (exit_code[p] = 0 <=> "verify" \in completed[p]))

\* C7 witness: removing the file failed, a warning was logged, and the run
\* still ended in success.
C7_Witness ==
    \E p \in Procs :
        /\ pc[p] = "done" /\ exit_code[p] = 0
        /\ warnings[p] = 1
        /\ DebFile(p).exists

IsInstallStage(s) == s \in Range(InstallStages)

\* The install stages (1-4) instance p has started, in order.
Started(p) == SelectSeq(log[p], IsInstallStage)

\* C8: the stages handle_install starts are, in order and without repetition or
\* gap, dependency install, fetch, package install, verify; each is started
\* only after the one before completed; a verified run went through all four;
\* and once a stage has raised, the run is past handle_install with that stage
\* the last one started.
C8_StagesInOrder ==
    \A p \in Procs :
        Direct(p) =>
            LET st == Started(p) IN
            /\ IsPrefix(st, InstallStages)
            /\ \A i \in 2..Len(st) : st[i - 1] \in completed[p]
            /\ "privilege" \notin completed[p] => st = <<>>
            /\ "verify" \in completed[p] =>
                  st = InstallStages /\ Range(st) \subseteq completed[p]
            /\ exc[p] # "none" /\ st # <<>> =>
                  Unwound(p) /\ Last(st) \notin completed[p]

\* C8 witness: the fetch failed after a successful dependency install, and the
\* run ended without starting the package install or the verification.
C8_Witness ==
    \E p \in Procs :
        /\ Started(p) = <<"deps", "fetch">>
        /\ "deps" \in completed[p]
        /\ exc[p] # "none"
        /\ pc[p] = "done"

\* What instance p's own finished download leaves at its path.
OwnDownload(p) == [exists |-> TRUE, writer |-> p, complete |-> TRUE]

\* C9: every instance uses one and the same temp path and nothing keeps them
\* apart; what an instance hands to dpkg -i is its own finished download, or
\* else a file another running instance opened, or nothing after another
\* instance's cleanup.
C9_SharedUnguardedPath ==
    \A p \in Procs :
        /\ \A q \in Procs : temp_deb_path[p] = temp_deb_path[q]
        /\ installed_from[p] \notin {NotInstalled, OwnDownload(p)} =>
              \E q \in Procs \ {p} :
                  \/ /\ installed_from[p].exists
                     /\ installed_from[p].writer = q
                     /\ pc[q] \notin {"start", "deps_update", "deps_install", "dl_call"}
                  \/ /\ installed_from[p] = Absent
                     /\ "cleanup" \in completed[q]

\* C9 witness: one instance has handed dpkg -i the file the other instance
\* opened and is still writing.
C9_Witness ==
    \E p \in Procs : \E q \in Procs \ {p} :
        /\ installed_from[p].exists
        /\ installed_from[p].writer = q
        /\ ~installed_from[p].complete
        /\ pc[q] = "dl_copy"
        /\ pc[p] \in {"install_fix", "verify"}

\* C10 as claimed: every fully successful run, of either path, went through
\* privilege check, dependency installation, acquisition, installation,
\* verification and cleanup, in that order.
C10_SameStageSequence ==
    \A p \in Procs :
        pc[p] = "done" /\ exit_code[p] = 0 => log[p] = AllStages

\* C10 amended: a fully successful run of the direct-download path goes through
\* all six stages in that order; a fully successful run of the repository-based
\* path goes through the same stages in the same order except verification,
\* which it does not have; and only main.py's main has such a run.
C10_SameSequenceButVerification ==
    \A p \in Procs :
        pc[p] = "done" /\ exit_code[p] = 0 =>
            /\ Range(log[p]) \subseteq completed[p]
            /\ Direct(p) => log[p] = AllStages
            /\ IsRepo(p) =>
                  /\ log[p] = <<"privilege", "deps", "fetch", "install", "cleanup">>
                  /\ variant[p] = "repo"

\* C10 witness: a fully successful run of the repository-based path.
C10_Witness ==
    \E p \in Procs :
        /\ variant[p] = "repo"
        /\ pc[p] = "done" /\ exit_code[p] = 0

====
